---------------------------- MODULE Spec2Model ----------------------------
(***************************************************************************)
(* pdf-reporter-mcp: the callout pipeline of markdown-renderer.ts          *)
(* (extractCallouts, renderCallout, processCallouts, renderMarkdown), the  *)
(* diagram substitution of pipeline.ts (renderContent) and the             *)
(* render_content tool handler of index.ts.                                *)
(*                                                                         *)
(* A string is a sequence of lexemes.  A lexeme is one character, except   *)
(* for the pieces of markup the program emits or looks for as a whole      *)
(* ("<div", "</div>", "{{diagram:", "}}", the style declarations, ...).    *)
(* No multi-character lexeme starts with a word character, a white space   *)
(* character, a colon or a backtick, so the regular expressions see it as  *)
(* they see its characters.  Offsets are 0-based as in the source; the     *)
(* character at offset o of text is text[o + 1].  The backtick character   *)
(* is written "BACKTICK" and an emoji by its code points.                  *)
(***************************************************************************)
EXTENDS Integers, Sequences, FiniteSets, TLC

\* ------------------------------------------------------------------------
\* Bounds of the model
\* ------------------------------------------------------------------------

\* Lines of a document built from the core line set
MaxCoreLines == 6

\* Lines of a document built from the full line set
MaxLines == 3

\* Lines of the markdown handed to render_content
MaxContentLines == 2

\* Entries of the diagrams array handed to render_content
MaxDiagrams == 2

\* ------------------------------------------------------------------------
\* Characters and the regular expression assertions
\* ------------------------------------------------------------------------

WordChars ==
  {"a", "b", "c", "d", "e", "f", "g", "h", "i", "j", "k", "l", "m", "n",
   "o", "p", "q", "r", "s", "t", "u", "v", "w", "x", "y", "z", "A", "B",
   "C", "D", "E", "F", "G", "H", "I", "J", "K", "L", "M", "N", "O", "P",
   "Q", "R", "S", "T", "U", "V", "W", "X", "Y", "Z", "0", "1", "2", "3",
   "4", "5", "6", "7", "8", "9", "_"}

\* \w
IsWordChar(c) == c \in WordChars

\* \s (also what String.prototype.trim strips)
IsWhiteSpace(c) == c \in {" ", "\t", "\n", "\r", "\f"}

\* The characters "." does not match and "^" / "$" (flag m) anchor on
IsLineTerminator(c) == c \in {"\n", "\r"}

Min(S) == CHOOSE x \in S : \A y \in S : x <= y

Max(S) == CHOOSE x \in S : \A y \in S : x >= y

\* "^" dropped from the patterns: every offset passes
CaretUnanchored(text, o) == TRUE

\* "^" with flag m at offset o
Caret(text, o) == o = 0 \/ IsLineTerminator(text[o])

\* "$" dropped from the patterns: every offset passes
DollarUnanchored(text, o) == TRUE

\* "$" with flag m at offset o
Dollar(text, o) == o = Len(text) \/ IsLineTerminator(text[o + 1])

\* The literal lit occurs in text at offset o
StartsWithAt(text, o, lit) ==
  /\ o + Len(lit) <= Len(text)
  /\ \A k \in 1..Len(lit) : text[o + k] = lit[k]

\* \w+ at offset o: the length of the longest run of word characters
WordRunLength(text, o) ==
  Max({n \in 0..(Len(text) - o) : \A j \in 1..n : IsWordChar(text[o + j])})

\* \s+ at offset o: the length of the longest run of white space
WhiteSpaceRunLength(text, o) ==
  Max({n \in 0..(Len(text) - o) : \A j \in 1..n : IsWhiteSpace(text[o + j])})

\* String.prototype.indexOf(needle, from): the first offset, or -1
IndexOfFrom(text, needle, from) ==
  LET hits == {o \in from..(Len(text) - Len(needle)) : StartsWithAt(text, o, needle)}
  IN  IF hits = {} THEN -1 ELSE Min(hits)

IndexOf(text, needle) == IndexOfFrom(text, needle, 0)

\* String.prototype.substring(from, to)
Substring(text, from, to) == SubSeq(text, from + 1, to)

\* trim() removed: the text is kept as it is
TrimNothing(text) == text

\* String.prototype.trim
Trim(text) ==
  LET keep == {k \in 1..Len(text) : ~IsWhiteSpace(text[k])}
  IN  IF keep = {} THEN <<>> ELSE SubSeq(text, Min(keep), Max(keep))

NoMatch == [found |-> FALSE]

\* ------------------------------------------------------------------------
\* codeBlockRegex = /^<fence>[\s\S]*?^<fence>$/gm, <fence> three backticks
\* ------------------------------------------------------------------------

\* The three backticks of a fence line
Fence == <<"BACKTICK", "BACKTICK", "BACKTICK">>

\* Offsets at or after from where the closing part ^<fence>$ matches
FenceCloseOffsets(text, from) ==
  {p \in from..Len(text) :
     Caret(text, p) /\ StartsWithAt(text, p, Fence) /\ Dollar(text, p + 3)}

\* [\s\S]* in place of [\s\S]*?: the block runs to the last closing line
CodeBlockExecGreedy(text, lastIndex) ==
  LET starts == {s \in lastIndex..Len(text) :
                   /\ Caret(text, s)
                   /\ StartsWithAt(text, s, Fence)
                   /\ FenceCloseOffsets(text, s + 3) # {}}
  IN  IF starts = {} THEN NoMatch
      ELSE LET s == Min(starts)
           IN  [found |-> TRUE, index |-> s,
                end |-> Max(FenceCloseOffsets(text, s + 3)) + 3]

\* codeBlockRegex.exec(text) with lastIndex: the leftmost start, then the
\* lazy [\s\S]*? stops at the first closing line
CodeBlockExec(text, lastIndex) ==
  LET starts == {s \in lastIndex..Len(text) :
                   /\ Caret(text, s)
                   /\ StartsWithAt(text, s, Fence)
                   /\ FenceCloseOffsets(text, s + 3) # {}}
  IN  IF starts = {} THEN NoMatch
      ELSE LET s == Min(starts)
           IN  [found |-> TRUE, index |-> s,
                end |-> Min(FenceCloseOffsets(text, s + 3)) + 3]

\* ------------------------------------------------------------------------
\* calloutRegex = /^:::(\w+)\s+(.*?)\n([\s\S]*?)^:::$/gm
\* ------------------------------------------------------------------------

Colons == <<":", ":", ":">>

\* Offsets at or after from where the closing part ^:::$ matches
CalloutCloseOffsets(text, from) ==
  {p \in from..Len(text) :
     Caret(text, p) /\ StartsWithAt(text, p, Colons) /\ Dollar(text, p + 3)}

\* Offset of the first line terminator at or after from, or -1
LineTerminatorFrom(text, from) ==
  LET lts == {q \in from..(Len(text) - 1) : IsLineTerminator(text[q + 1])}
  IN  IF lts = {} THEN -1 ELSE Min(lts)

\* (.*?)\n([\s\S]*?)^:::$ matched from offset ts: the lazy title stops at
\* the first \n ("." matches no line terminator), the lazy body at the
\* first closing line
CalloutTail(text, ts) ==
  LET nl == LineTerminatorFrom(text, ts)
  IN  IF nl = -1 THEN NoMatch
      ELSE IF text[nl + 1] # "\n" THEN NoMatch
      ELSE LET closes == CalloutCloseOffsets(text, nl + 1)
           IN  IF closes = {} THEN NoMatch
               ELSE [found |-> TRUE, nl |-> nl, close |-> Min(closes)]

\* \s in place of \s+: one white space character only
SpaceRunOne(m) == IF m >= 1 THEN {1} ELSE {}

\* \s+ on a run of m white space characters: the lengths it can take
SpaceRun(m) == 1..m

\* The whole pattern matched at offset s.  \w+ takes the whole run of word
\* characters (a shorter one is followed by a word character, which \s+
\* refuses); \s+ is greedy and gives back a character at a time, so the
\* longest length that lets the rest match is the one taken.
CalloutMatchAt(text, s) ==
  IF ~(Caret(text, s) /\ StartsWithAt(text, s, Colons)) THEN NoMatch
  ELSE LET w  == WordRunLength(text, s + 3)
           t  == s + 3 + w
           m  == WhiteSpaceRunLength(text, t)
           ks == {k \in SpaceRun(m) : CalloutTail(text, t + k).found}
       IN  IF w = 0 \/ ks = {} THEN NoMatch
           ELSE LET k    == Max(ks)
                    tail == CalloutTail(text, t + k)
                IN  [found |-> TRUE,
                     index |-> s,
                     end   |-> tail.close + 3,
                     fullMatch |-> Substring(text, s, tail.close + 3),
                     type  |-> Substring(text, s + 3, t),
                     title |-> Substring(text, t + k, tail.nl),
                     body  |-> Substring(text, tail.nl + 1, tail.close)]

\* lastIndex ignored: every search starts at offset 0
CalloutExecFromStart(text, lastIndex) ==
  LET starts == {s \in 0..Len(text) : CalloutMatchAt(text, s).found}
  IN  IF starts = {} THEN NoMatch ELSE CalloutMatchAt(text, Min(starts))

\* calloutRegex.exec(text) with lastIndex: the leftmost offset that matches
CalloutExec(text, lastIndex) ==
  LET starts == {s \in lastIndex..Len(text) : CalloutMatchAt(text, s).found}
  IN  IF starts = {} THEN NoMatch ELSE CalloutMatchAt(text, Min(starts))

\* The CalloutMatch pushed for a regex match: fullMatch, type, title and the
\* trimmed body
CalloutMatchOf(m) ==
  [fullMatch |-> m.fullMatch, type |-> m.type, title |-> m.title,
   body |-> Trim(m.body)]

\* ------------------------------------------------------------------------
\* CALLOUT_TYPES and renderCallout
\* ------------------------------------------------------------------------

\* The registry object literal: its nine own properties
CALLOUT_TYPES ==
  <<"i", "d", "e", "a">> :>
    [emoji |-> "U+1F4A1", borderColor |-> "#F59E0B", backgroundColor |-> "#FFFBEB",
     titleColor |-> "#D97706", bodyColor |-> "#92400E"] @@
  <<"a", "u", "t", "o", "m", "a", "t", "i", "o", "n">> :>
    [emoji |-> "U+1F916", borderColor |-> "#14B8A6", backgroundColor |-> "#F0FDFA",
     titleColor |-> "#0F766E", bodyColor |-> "#134E4A"] @@
  <<"w", "a", "r", "n", "i", "n", "g">> :>
    [emoji |-> "U+26A0 U+FE0F", borderColor |-> "#F97316", backgroundColor |-> "#FFF7ED",
     titleColor |-> "#EA580C", bodyColor |-> "#9A3412"] @@
  <<"s", "u", "c", "c", "e", "s", "s">> :>
    [emoji |-> "U+2705", borderColor |-> "#22C55E", backgroundColor |-> "#F0FDF4",
     titleColor |-> "#16A34A", bodyColor |-> "#166534"] @@
  <<"i", "n", "f", "o">> :>
    [emoji |-> "U+2139 U+FE0F", borderColor |-> "#3B82F6", backgroundColor |-> "#EFF6FF",
     titleColor |-> "#2563EB", bodyColor |-> "#1E40AF"] @@
  <<"c", "r", "i", "t", "i", "c", "a", "l">> :>
    [emoji |-> "U+1F534", borderColor |-> "#EF4444", backgroundColor |-> "#FEF2F2",
     titleColor |-> "#DC2626", bodyColor |-> "#991B1B"] @@
  <<"b", "u", "s", "i", "n", "e", "s", "s">> :>
    [emoji |-> "U+1F4B0", borderColor |-> "#10B981", backgroundColor |-> "#ECFDF5",
     titleColor |-> "#059669", bodyColor |-> "#065F46"] @@
  <<"e", "x", "p", "e", "r", "t">> :>
    [emoji |-> "U+1F50D", borderColor |-> "#8B5CF6", backgroundColor |-> "#F5F3FF",
     titleColor |-> "#7C3AED", bodyColor |-> "#5B21B6"] @@
  <<"t", "i", "p">> :>
    [emoji |-> "U+1F48E", borderColor |-> "#06B6D4", backgroundColor |-> "#ECFEFF",
     titleColor |-> "#0891B2", bodyColor |-> "#155E75"]

InfoType == <<"i", "n", "f", "o">>

\* The properties every object literal inherits from Object.prototype: a
\* lookup of one of these names on CALLOUT_TYPES finds the inherited value
ObjectPrototypeKeys ==
  {<<"c", "o", "n", "s", "t", "r", "u", "c", "t", "o", "r">>,
   <<"t", "o", "S", "t", "r", "i", "n", "g">>,
   <<"t", "o", "L", "o", "c", "a", "l", "e", "S", "t", "r", "i", "n", "g">>,
   <<"v", "a", "l", "u", "e", "O", "f">>,
   <<"h", "a", "s", "O", "w", "n", "P", "r", "o", "p", "e", "r", "t", "y">>,
   <<"i", "s", "P", "r", "o", "t", "o", "t", "y", "p", "e", "O", "f">>,
   <<"p", "r", "o", "p", "e", "r", "t", "y", "I", "s", "E", "n", "u", "m", "e", "r", "a", "b", "l", "e">>,
   <<"_", "_", "p", "r", "o", "t", "o", "_", "_">>,
   <<"_", "_", "d", "e", "f", "i", "n", "e", "G", "e", "t", "t", "e", "r", "_", "_">>,
   <<"_", "_", "d", "e", "f", "i", "n", "e", "S", "e", "t", "t", "e", "r", "_", "_">>,
   <<"_", "_", "l", "o", "o", "k", "u", "p", "G", "e", "t", "t", "e", "r", "_", "_">>,
   <<"_", "_", "l", "o", "o", "k", "u", "p", "S", "e", "t", "t", "e", "r", "_", "_">>}

\* What destructuring reads from an inherited value (a function or
\* Object.prototype itself, neither null nor undefined): no such property,
\* which a template literal prints as "undefined"
InheritedValueFields ==
  [emoji |-> "undefined", borderColor |-> "undefined",
   backgroundColor |-> "undefined", titleColor |-> "undefined",
   bodyColor |-> "undefined"]

\* CALLOUT_TYPES[type] ?? CALLOUT_TYPES.info
DefinitionOf(type) ==
  IF type \in DOMAIN CALLOUT_TYPES THEN CALLOUT_TYPES[type]
  ELSE IF type \in ObjectPrototypeKeys THEN InheritedValueFields
  ELSE CALLOUT_TYPES[InfoType]

\* containerStyle: the six declarations joined with "; "
ContainerStyle(def) ==
  <<"border-left: 4px solid ", def.borderColor, "; ",
    "background: ", def.backgroundColor, "; ",
    "padding: 16px 20px", "; ", "margin: 20px 0", "; ",
    "border-radius: 8px", "; ", "page-break-inside: avoid">>

\* titleStyle: the four declarations joined with "; "
TitleStyle(def) ==
  <<"font-weight: 700", "; ", "font-size: 15px", "; ",
    "color: ", def.titleColor, "; ", "margin-bottom: 8px">>

\* bodyStyle: the three declarations joined with "; "
BodyStyle(def) ==
  <<"color: ", def.bodyColor, "; ", "font-size: 14px", "; ",
    "line-height: 1.6">>

\* The closing tag of the container left out
CalloutEndMissing == <<>>

\* html += '</div>' that closes the container
CalloutEnd == <<"</div>">>

\* renderCallout up to the test of match.body: the container's opening tag
\* and the title element
CalloutHead(match) ==
  LET def == DefinitionOf(match.type)
  IN  <<"<div", " class=\"callout callout-">> \o match.type
        \o <<"\" style=\"">> \o ContainerStyle(def) \o <<"\">">>
        \o <<"<div", " class=\"callout-title\" style=\"">>
        \o TitleStyle(def) \o <<"\">">>
        \o <<"<span class=\"callout-icon\">", def.emoji, "</span>", " ">>
        \o match.title
        \o <<"</div>">>

\* The body element around the rendered body
CalloutBody(match, bodyHtml) ==
  <<"<div", " class=\"callout-body\" style=\"">>
    \o BodyStyle(DefinitionOf(match.type)) \o <<"\">">>
    \o bodyHtml \o <<"</div>">>

\* marked.parse(src) of the configured Marked instance when it does not
\* throw.  The engine is a library outside the repository: its output is
\* modelled as the source's text inside a paragraph element, which keeps
\* what the callers rely on (the output is a function of the source, text
\* and inline HTML are carried through).
MarkedParse(src) == <<"<p>">> \o src \o <<"</p>", "\n">>

\* The value the engine throws when it fails: an Error, not a PdfReporterError
MarkedError == [kind |-> "Error", message |-> <<"marked: parse failed">>]

NoError == [kind |-> "none"]

\* result.substring(0, at) + html + result.substring(at + length)
Splice(text, at, length, html) ==
  Substring(text, 0, at) \o html \o Substring(text, at + length, Len(text))

\* ------------------------------------------------------------------------
\* String.prototype.replaceAll(searchString, replaceValue)
\* ------------------------------------------------------------------------

RECURSIVE GetSubstitutionFrom(_, _, _, _, _)
\* GetSubstitution from index k of the replacement template: $$ is a dollar
\* sign, $& the matched text, $BACKTICK the text before the match, $' the
\* text after it; there are no captures, so any other $ stays as it is
GetSubstitutionFrom(matched, str, position, replacement, k) ==
  IF k > Len(replacement) THEN <<>>
  ELSE IF replacement[k] = "$" /\ k < Len(replacement)
            /\ replacement[k + 1] \in {"$", "&", "BACKTICK", "'"}
  THEN (CASE replacement[k + 1] = "$" -> <<"$">>
          [] replacement[k + 1] = "&" -> matched
          [] replacement[k + 1] = "BACKTICK" -> Substring(str, 0, position)
          [] replacement[k + 1] = "'" ->
               Substring(str, position + Len(matched), Len(str)))
         \o GetSubstitutionFrom(matched, str, position, replacement, k + 2)
  ELSE <<replacement[k]>>
         \o GetSubstitutionFrom(matched, str, position, replacement, k + 1)

\* replace in place of replaceAll: the first occurrence only
OccurrencesFirstOnly(str, searchString, from) ==
  LET p == IndexOfFrom(str, searchString, from)
  IN  IF p = -1 THEN <<>> ELSE <<p>>

RECURSIVE OccurrencesFrom(_, _, _)
\* The offsets replaceAll replaces: the occurrences of searchString found
\* left to right, each search starting where the last occurrence ended
OccurrencesFrom(str, searchString, from) ==
  LET p == IndexOfFrom(str, searchString, from)
  IN  IF p = -1 THEN <<>>
      ELSE <<p>> \o OccurrencesFrom(str, searchString, p + Len(searchString))

RECURSIVE SpliceAll(_, _, _, _, _, _)
\* seq from offset from on, with the len elements at each offset occs[j..]
\* replaced by repls[j..]
SpliceAll(seq, occs, len, repls, j, from) ==
  IF j > Len(occs) THEN Substring(seq, from, Len(seq))
  ELSE Substring(seq, from, occs[j]) \o repls[j]
         \o SpliceAll(seq, occs, len, repls, j + 1, occs[j] + len)

\* The expanded template of each occurrence
Substitutions(str, searchString, replaceValue) ==
  LET occs == OccurrencesFrom(str, searchString, 0)
  IN  [j \in 1..Len(occs) |->
         GetSubstitutionFrom(searchString, str, occs[j], replaceValue, 1)]

ReplaceAll(str, searchString, replaceValue) ==
  SpliceAll(str, OccurrencesFrom(str, searchString, 0), Len(searchString),
            Substitutions(str, searchString, replaceValue), 1, 0)

\* Where the characters of replaceAll's result come from: those of str
\* keep their mark, those of an expanded template are marked inserted
ReplaceAllOrigin(str, origin, searchString, replaceValue) ==
  LET subs == Substitutions(str, searchString, replaceValue)
  IN  SpliceAll(origin, OccurrencesFrom(str, searchString, 0),
                Len(searchString),
                [j \in 1..Len(subs) |-> [k \in 1..Len(subs[j]) |-> TRUE]],
                1, 0)

\* The placeholder of the diagram x, whatever the name
PlaceholderOfX(name) == <<"{{diagram:", "x", "}}">>

\* placeholder = `{{diagram:${diagram.name}}}`
Placeholder(name) == <<"{{diagram:">> \o name \o <<"}}">>

\* The wrapper template handed to replaceAll
DiagramWrapper(svg) ==
  <<"<div class=\"diagram-container\">", "<div class=\"diagram-svg\">">>
    \o svg \o <<"</div>", "</div>">>

\* ------------------------------------------------------------------------
\* buildErrorResponse
\* ------------------------------------------------------------------------

\* Every thrown value is answered as an internal error
BuildErrorResponseInternal(error) ==
  [isError |-> TRUE, text |-> <<"Internal error: ">> \o error.message]

BuildErrorResponse(error) ==
  IF error.kind = "PdfReporterError"
  THEN [isError |-> TRUE,
        text |-> <<"Error [", error.code, "]: ">> \o error.message]
  ELSE IF error.kind = "ZodError"
  THEN [isError |-> TRUE, text |-> <<"Validation error: ">> \o error.message]
  ELSE [isError |-> TRUE, text |-> <<"Internal error: ">> \o error.message]

NoResponse == [isError |-> FALSE, text |-> <<>>]

\* ------------------------------------------------------------------------
\* Inputs
\* ------------------------------------------------------------------------

RECURSIVE Join(_)
\* The lines of a document joined with line feeds
Join(lines) ==
  IF Len(lines) = 0 THEN <<>>
  ELSE IF Len(lines) = 1 THEN lines[1]
  ELSE lines[1] \o <<"\n">> \o Join(Tail(lines))

SeqsUpTo(S, n) == UNION {[1..k -> S] : k \in 0..n}

LineClose      == <<":", ":", ":">>
LineOpenX      == <<":", ":", ":", "x", " ", "t">>
LineFence      == <<"BACKTICK", "BACKTICK", "BACKTICK">>
LineText       == <<"b">>
LineBlank      == <<" ">>
LineEmpty      == <<>>
LineMidOpen    == <<"b", ":", ":", ":", "x", " ", "t">>
LineMidClose   == <<"b", ":", ":", ":">>
LineOpenTip    == <<":", ":", ":", "t", "i", "p", " ", " ", "t">>
LineOpenProto  == <<":", ":", ":", "v", "a", "l", "u", "e", "O", "f", " ", "t">>
LineOpenDiv    == <<":", ":", ":", "x", " ", "<div">>
LineOpenBare   == <<":", ":", ":", "x">>

\* Lines of the long documents: callouts, fences
CoreLines == {LineClose, LineOpenX, LineFence}

\* Lines of the short documents
AllLines ==
  {LineClose, LineOpenX, LineFence, LineText, LineBlank, LineEmpty,
   LineMidOpen, LineMidClose, LineOpenTip, LineOpenProto, LineOpenDiv,
   LineOpenBare}

\* The markdown texts processCallouts is called with
Documents ==
  {Join(ls) : ls \in SeqsUpTo(CoreLines, MaxCoreLines)
                       \cup SeqsUpTo(AllLines, MaxLines)}

NameX == <<"x">>
NameY == <<"y">>

\* Lines of the markdown handed to render_content: placeholders, text and
\* a callout with a body
ContentLines ==
  {Placeholder(NameX), Placeholder(NameY), LineText,
   LineOpenX \o <<"\n">> \o LineText \o <<"\n">> \o LineClose}

ContentDocuments == {Join(ls) : ls \in SeqsUpTo(ContentLines, MaxContentLines)}

\* The svg strings of the supplied diagrams
Svgs == {<<"s">>, <<"$", "&">>, <<"$", "$">>, Placeholder(NameX)}

\* input.diagrams: absent, or up to MaxDiagrams {name, svg} pairs
DiagramInputs ==
  {[present |-> FALSE, list |-> <<>>]}
    \cup {[present |-> TRUE, list |-> l] :
            l \in SeqsUpTo([name : {NameX, NameY}, svg : Svgs], MaxDiagrams)}

\* ------------------------------------------------------------------------
\* State
\* ------------------------------------------------------------------------

VARIABLES
  entry,              \* the function the caller invoked
  markdown,           \* the markdown argument
  diagrams,           \* input.diagrams of render_content
  pc,                 \* where the invocation stands
  codeBlockRanges,    \* processCallouts: codeBlockRanges
  codeBlockLastIndex, \* processCallouts: codeBlockRegex.lastIndex
  callouts,           \* extractCallouts: matches
  calloutLastIndex,   \* extractCallouts: calloutRegex.lastIndex
  calloutsToProcess,  \* processCallouts: calloutsToProcess
  i,                  \* processCallouts: index of the replacement loop
  callout,            \* processCallouts: callout of the current iteration
  calloutIndex,       \* processCallouts: calloutIndex of the current iteration
  calloutHtml,        \* renderCallout: html
  result,             \* processCallouts: result
  contentHtml,        \* renderContent: html
  contentOrigin,      \* per character of html: put there by a substitution
  d,                  \* renderContent: position in input.diagrams
  error,              \* the value thrown, once something threw
  response,           \* what the tool handler returned
  headingText,        \* slugify: text
  slug,               \* slugify: the value returned
  suspended,          \* a second call of processCallouts, waiting its turn
  req,                \* the tool calls in progress, each with its locals
  renderCache,        \* template-engine: the keys of renderCache
  compiled,           \* per template name: how often it was loaded and compiled
  files               \* the output directory: path -> bytes

calloutVars ==
  <<codeBlockRanges, codeBlockLastIndex, callouts, calloutLastIndex,
    calloutsToProcess, i, callout, calloutIndex, calloutHtml, result>>

contentVars == <<contentHtml, contentOrigin, d, response>>

inputVars == <<entry, markdown, diagrams>>

slugVars == <<headingText, slug>>

\* What lies outside a call of processCallouts or renderContent
toolVars == <<req, renderCache, compiled, files>>

restVars == <<slugVars, suspended, toolVars>>

vars == <<inputVars, pc, calloutVars, contentVars, error, restVars>>

NoCallout == [fullMatch |-> <<>>, type |-> <<>>, title |-> <<>>, body |-> <<>>]

\* No second call
NoInvocation ==
  [active |-> FALSE, markdown |-> <<>>, pc |-> "none", locals |-> <<>>]

InitLocals ==
  /\ pc = "codeBlocks"
  /\ codeBlockRanges = <<>>
  /\ codeBlockLastIndex = 0
  /\ callouts = <<>>
  /\ calloutLastIndex = 0
  /\ calloutsToProcess = <<>>
  /\ i = 0
  /\ callout = NoCallout
  /\ calloutIndex = -1
  /\ calloutHtml = <<>>
  /\ result = <<>>
  /\ contentHtml = <<>>
  /\ contentOrigin = <<>>
  /\ d = 0
  /\ error = NoError
  /\ response = NoResponse

\* No tool call besides the one the flat variables follow; nothing cached,
\* nothing written
InitNoTools ==
  /\ req = <<>>
  /\ renderCache = {}
  /\ compiled = <<>>
  /\ files = <<>>

\* Nothing outside the call is in progress
InitRest ==
  /\ headingText = <<>>
  /\ slug = <<>>
  /\ suspended = NoInvocation
  /\ InitNoTools

\* A call of processCallouts(markdown)
Init ==
  /\ entry = "processCallouts"
  /\ markdown \in Documents
  /\ diagrams = [present |-> FALSE, list |-> <<>>]
  /\ InitLocals
  /\ InitRest

\* A call of the render_content tool with {markdown, diagrams}
InitContent ==
  /\ entry = "render_content"
  /\ markdown \in ContentDocuments
  /\ diagrams \in DiagramInputs
  /\ InitLocals
  /\ InitRest

\* ------------------------------------------------------------------------
\* processCallouts
\* ------------------------------------------------------------------------

\* isInCodeBlock(pos)
IsInCodeBlock(ranges, pos) ==
  \E k \in 1..Len(ranges) : pos >= ranges[k].start /\ pos < ranges[k].end

\* One turn of the while loop over codeBlockRegex.exec(markdown)
ScanCodeBlock ==
  /\ pc = "codeBlocks"
  /\ LET m == CodeBlockExec(markdown, codeBlockLastIndex)
     IN  IF m.found
         THEN /\ codeBlockRanges' =
                   Append(codeBlockRanges, [start |-> m.index, end |-> m.end])
              /\ codeBlockLastIndex' = m.end
              /\ pc' = pc
         ELSE /\ pc' = "extract"
              /\ UNCHANGED <<codeBlockRanges, codeBlockLastIndex>>
  /\ UNCHANGED <<inputVars, restVars, callouts, calloutLastIndex, calloutsToProcess, i,
                 callout, calloutIndex, calloutHtml, result, contentVars, error>>

\* One turn of the while loop of extractCallouts(markdown)
ExtractCallout ==
  /\ pc = "extract"
  /\ LET m == CalloutExec(markdown, calloutLastIndex)
     IN  IF m.found
         THEN /\ callouts' = Append(callouts, CalloutMatchOf(m))
              /\ calloutLastIndex' = m.end
              /\ pc' = pc
         ELSE /\ pc' = "filter"
              /\ UNCHANGED <<callouts, calloutLastIndex>>
  /\ UNCHANGED <<inputVars, restVars, codeBlockRanges, codeBlockLastIndex,
                 calloutsToProcess, i, callout, calloutIndex, calloutHtml,
                 result, contentVars, error>>

\* The test of the first for loop: markdown.indexOf(callout.fullMatch)
\* is found and not inside a code block
IsRetained(text, ranges, c) ==
  LET at == IndexOf(text, c.fullMatch)
  IN  at # -1 /\ ~IsInCodeBlock(ranges, at)

\* The replacement loop starts at the first retained callout and handles
\* no other
FilterCalloutsFromFirst ==
  /\ pc = "filter"
  /\ calloutsToProcess' =
       SelectSeq(callouts,
                 LAMBDA c : IsRetained(markdown, codeBlockRanges, c))
  /\ result' = markdown
  /\ i' = IF calloutsToProcess' = <<>> THEN -1 ELSE 0
  /\ pc' = "replace"
  /\ UNCHANGED <<inputVars, restVars, codeBlockRanges, codeBlockLastIndex, callouts,
                 calloutLastIndex, callout, calloutIndex, calloutHtml,
                 contentVars, error>>

\* The for loop that fills calloutsToProcess, then result = markdown and
\* the start of the replacement loop
FilterCallouts ==
  /\ pc = "filter"
  /\ calloutsToProcess' =
       SelectSeq(callouts,
                 LAMBDA c : IsRetained(markdown, codeBlockRanges, c))
  /\ result' = markdown
  /\ i' = Len(calloutsToProcess') - 1
  /\ pc' = "replace"
  /\ UNCHANGED <<inputVars, restVars, codeBlockRanges, codeBlockLastIndex, callouts,
                 calloutLastIndex, callout, calloutIndex, calloutHtml,
                 contentVars, error>>

\* One turn of the replacement loop up to the first await: the lookup of
\* the callout in result and renderCallout up to marked.parse(match.body).
\* A callout without a body is rendered and substituted at once.
ReplaceCallout ==
  /\ pc = "replace"
  /\ i >= 0
  /\ LET c  == calloutsToProcess[i + 1]
         at == IndexOf(result, c.fullMatch)
     IN  /\ callout' = c
         /\ calloutIndex' = at
         /\ IF at = -1
            THEN /\ calloutHtml' = <<>>
                 /\ i' = i - 1
                 /\ UNCHANGED <<result, pc>>
            ELSE IF c.body = <<>>
            THEN /\ calloutHtml' = CalloutHead(c) \o CalloutEnd
                 /\ result' = Splice(result, at, Len(c.fullMatch), calloutHtml')
                 /\ i' = i - 1
                 /\ pc' = pc
            ELSE /\ calloutHtml' = CalloutHead(c)
                 /\ pc' = "parseBody"
                 /\ UNCHANGED <<result, i>>
  /\ UNCHANGED <<inputVars, restVars, codeBlockRanges, codeBlockLastIndex, callouts,
                 calloutLastIndex, calloutsToProcess, contentVars, error>>

\* marked.parse(match.body) resolves: the body element and the closing tag
\* are appended, the fragment replaces the callout in result
BodyParsed ==
  /\ pc = "parseBody"
  /\ calloutHtml' =
       calloutHtml \o CalloutBody(callout, MarkedParse(callout.body))
         \o CalloutEnd
  /\ result' = Splice(result, calloutIndex, Len(callout.fullMatch), calloutHtml')
  /\ i' = i - 1
  /\ pc' = "replace"
  /\ UNCHANGED <<inputVars, restVars, codeBlockRanges, codeBlockLastIndex, callouts,
                 calloutLastIndex, calloutsToProcess, callout, calloutIndex,
                 contentVars, error>>

\* What becomes of a value thrown under renderMarkdown: nothing between the
\* engine and the caller catches it but the tool handler's catch, which
\* answers buildErrorResponse(error)
Thrown(err) ==
  /\ error' = err
  /\ IF entry = "render_content"
     THEN /\ response' = BuildErrorResponse(err)
          /\ pc' = "responded"
     ELSE /\ response' = response
          /\ pc' = "rejected"

\* marked.parse(match.body) throws
BodyParseThrows ==
  /\ pc = "parseBody"
  /\ Thrown(MarkedError)
  /\ UNCHANGED <<inputVars, restVars, calloutVars, contentHtml, contentOrigin, d>>

\* The replacement loop is over: processCallouts returns result, to its
\* caller or into renderMarkdown's marked.parse(withCallouts)
ProcessCalloutsReturns ==
  /\ pc = "replace"
  /\ i < 0
  /\ pc' = IF entry = "processCallouts" THEN "resolved" ELSE "parseDocument"
  /\ UNCHANGED <<inputVars, restVars, calloutVars, contentVars, error>>

\* ------------------------------------------------------------------------
\* renderMarkdown, renderContent and the render_content handler
\* ------------------------------------------------------------------------

\* marked.parse(withCallouts) resolves: renderContent has its html
DocumentParsed ==
  /\ pc = "parseDocument"
  /\ contentHtml' = MarkedParse(result)
  /\ contentOrigin' = [k \in 1..Len(contentHtml') |-> FALSE]
  /\ d' = 0
  /\ pc' = "diagrams"
  /\ UNCHANGED <<inputVars, restVars, calloutVars, response, error>>

\* marked.parse(withCallouts) throws
DocumentParseThrows ==
  /\ pc = "parseDocument"
  /\ Thrown(MarkedError)
  /\ UNCHANGED <<inputVars, restVars, calloutVars, contentHtml, contentOrigin, d>>

\* One turn of the for loop over input.diagrams
SubstituteDiagram ==
  /\ pc = "diagrams"
  /\ diagrams.present
  /\ d < Len(diagrams.list)
  /\ contentHtml' =
       ReplaceAll(contentHtml, Placeholder(diagrams.list[d + 1].name),
                  DiagramWrapper(diagrams.list[d + 1].svg))
  /\ contentOrigin' =
       ReplaceAllOrigin(contentHtml, contentOrigin,
                        Placeholder(diagrams.list[d + 1].name),
                        DiagramWrapper(diagrams.list[d + 1].svg))
  /\ d' = d + 1
  /\ UNCHANGED <<inputVars, restVars, pc, calloutVars, response, error>>

\* renderContent returns {html}; the handler answers with it
Respond ==
  /\ pc = "diagrams"
  /\ ~diagrams.present \/ d = Len(diagrams.list)
  /\ response' = [isError |-> FALSE, text |-> contentHtml]
  /\ pc' = "responded"
  /\ UNCHANGED <<inputVars, restVars, calloutVars, contentHtml, contentOrigin, d, error>>

\* ------------------------------------------------------------------------
\* Specifications
\* ------------------------------------------------------------------------

NextCallouts ==
  \/ ScanCodeBlock
  \/ ExtractCallout
  \/ FilterCallouts
  \/ ReplaceCallout
  \/ BodyParsed
  \/ BodyParseThrows
  \/ ProcessCalloutsReturns

Next == NextCallouts

NextContent ==
  \/ NextCallouts
  \/ DocumentParsed
  \/ DocumentParseThrows
  \/ SubstituteDiagram
  \/ Respond

\* processCallouts called on its own
Spec == Init /\ [][Next]_vars

\* The render_content tool
SpecContent == InitContent /\ [][NextContent]_vars

\* ------------------------------------------------------------------------
\* What the claims speak of
\* ------------------------------------------------------------------------

RECURSIVE CodeBlocksFrom(_, _)
\* The whole loop over codeBlockRegex.exec: every range, in order
CodeBlocksFrom(text, lastIndex) ==
  LET m == CodeBlockExec(text, lastIndex)
  IN  IF m.found
      THEN <<[start |-> m.index, end |-> m.end]>> \o CodeBlocksFrom(text, m.end)
      ELSE <<>>

RECURSIVE MatchesFrom(_, _)
\* The whole loop over calloutRegex.exec: every match with its offsets
MatchesFrom(text, lastIndex) ==
  LET m == CalloutExec(text, lastIndex)
  IN  IF m.found THEN <<m>> \o MatchesFrom(text, m.end) ELSE <<>>

\* renderCallout(match) when the engine does not throw
Fragment(c) ==
  CalloutHead(c)
    \o (IF c.body = <<>> THEN <<>> ELSE CalloutBody(c, MarkedParse(c.body)))
    \o CalloutEnd

\* Number of occurrences of a lexeme in a string
Count(text, lexeme) == Cardinality({k \in 1..Len(text) : text[k] = lexeme})

\* The call of processCallouts has returned
Resolved == pc = "resolved"

\* renderCallout has returned the fragment of the current callout
Rendered == pc = "replace" /\ calloutHtml # <<>>

\* C1: callout syntax that lies strictly between the opening line and the
\* closing line of a code fence is never replaced by callout HTML: when
\* processCallouts returns, the text of every callout match inside a fence
\* range is still in the output.
C1_FencedCalloutKept ==
  Resolved =>
    \A k \in 1..Len(codeBlockRanges) :
      LET ms == MatchesFrom(markdown, 0)
      IN  \A j \in 1..Len(ms) :
            (codeBlockRanges[k].start < ms[j].index
               /\ ms[j].end < codeBlockRanges[k].end)
              => IndexOf(result, ms[j].fullMatch) # -1

RECURSIVE ReplacedAtOffsets(_, _, _, _, _)
\* text from offset from on, with each retained match ms[k..] replaced by
\* its fragment at the offset where the extractor matched it
ReplacedAtOffsets(text, ranges, ms, k, from) ==
  IF k > Len(ms) THEN Substring(text, from, Len(text))
  ELSE IF IsRetained(text, ranges, ms[k])
  THEN Substring(text, from, ms[k].index)
         \o Fragment(CalloutMatchOf(ms[k]))
         \o ReplacedAtOffsets(text, ranges, ms, k + 1, ms[k].end)
  ELSE Substring(text, from, ms[k].end)
         \o ReplacedAtOffsets(text, ranges, ms, k + 1, ms[k].end)

\* C2: processCallouts changes only the spans of the retained matches: the
\* output is the input with each retained match replaced, at the offset
\* where the extractor matched it, by its rendered fragment, and every
\* other character unchanged and in the same order.
C2_OnlyRetainedSpansChange ==
  Resolved =>
    result = ReplacedAtOffsets(markdown, CodeBlocksFrom(markdown, 0),
                               MatchesFrom(markdown, 0), 1, 0)

\* No line of text begins with three colons
NoColonLine(text) ==
  \A o \in 0..Len(text) :
    (o = 0 \/ IsLineTerminator(text[o])) => ~StartsWithAt(text, o, Colons)

\* C3: for an input in which no line begins with three colons,
\* processCallouts returns the input unchanged: it renders nothing, does
\* not reject, and its result is the input.
C3_PassThrough ==
  NoColonLine(markdown) =>
    /\ pc \notin {"parseBody", "rejected"}
    /\ Resolved => result = markdown

\* A returned call on an input that holds three colons, none at the
\* beginning of a line
C3_Witness ==
  /\ Resolved
  /\ NoColonLine(markdown)
  /\ IndexOf(markdown, Colons) # -1

\* The render_content handler answered with the html of renderContent
Answered == pc = "responded" /\ ~response.isError

\* The offsets at which needle occurs in text
OccurrenceOffsets(text, needle) ==
  {o \in 0..(Len(text) - Len(needle)) : StartsWithAt(text, o, needle)}

\* C4 as claimed: the returned html holds no occurrence of the placeholder
\* of any supplied diagram, whatever the html and the diagrams.
C4_NoPlaceholderLeft ==
  (Answered /\ diagrams.present) =>
    \A k \in 1..Len(diagrams.list) :
      IndexOf(response.text, Placeholder(diagrams.list[k].name)) = -1

\* C4 (amended): every occurrence of a supplied diagram's placeholder in
\* the rendered markdown is replaced, not only the first: no such
\* placeholder is left in the markdown's own text.  Where the returned html
\* still holds one, a substitution put part of it there.
C4_PlaceholderOnlyFromSubstitution ==
  (Answered /\ diagrams.present) =>
    /\ Len(contentOrigin) = Len(response.text)
    /\ \A k \in 1..Len(diagrams.list) :
         LET ph == Placeholder(diagrams.list[k].name)
         IN  \A o \in OccurrenceOffsets(response.text, ph) :
               \E q \in (o + 1)..(o + Len(ph)) : contentOrigin[q]

\* A supplied diagram whose placeholder occurred more than once in the
\* rendered markdown, and no longer occurs in the returned html
C4_Witness ==
  /\ Answered
  /\ diagrams.present
  /\ \E k \in 1..Len(diagrams.list) :
       LET ph == Placeholder(diagrams.list[k].name)
       IN  /\ Cardinality(OccurrenceOffsets(MarkedParse(result), ph)) >= 2
           /\ IndexOf(response.text, ph) = -1

RECURSIVE VerbatimFrom(_, _, _, _)
\* str from offset from on with every occurrence of searchString replaced
\* by text, character for character
VerbatimFrom(str, searchString, text, from) ==
  LET p == IndexOfFrom(str, searchString, from)
  IN  IF p = -1 THEN Substring(str, from, Len(str))
      ELSE Substring(str, from, p) \o text
             \o VerbatimFrom(str, searchString, text, p + Len(searchString))

RECURSIVE VerbatimDiagrams(_, _, _)
\* html after the diagrams list[k..], each wrapper embedding its svg as is
VerbatimDiagrams(html, list, k) ==
  IF k > Len(list) THEN html
  ELSE VerbatimDiagrams(
         VerbatimFrom(html, Placeholder(list[k].name),
                      DiagramWrapper(list[k].svg), 0),
         list, k + 1)

\* C5: each placeholder of a supplied diagram is replaced by exactly the
\* wrapper around the diagram's svg, character for character, whatever the
\* svg string is.
C5_SvgVerbatim ==
  (Answered /\ diagrams.present) =>
    response.text = VerbatimDiagrams(MarkedParse(result), diagrams.list, 1)

\* C6: a callout whose type token is not one of the nine registry names is
\* rendered with the info definition's icon, border, background, title and
\* body colours, and with the class callout-<token>.
C6_UnknownTypeAsInfo ==
  (Rendered /\ callout.type \notin DOMAIN CALLOUT_TYPES) =>
    LET info == CALLOUT_TYPES[InfoType]
    IN  /\ StartsWithAt(calloutHtml, 0,
             <<"<div", " class=\"callout callout-">> \o callout.type
               \o <<"\" style=\"", "border-left: 4px solid ",
                    info.borderColor, "; ", "background: ",
                    info.backgroundColor, "; ">>)
        /\ IndexOf(calloutHtml, <<"color: ", info.titleColor>>) # -1
        /\ IndexOf(calloutHtml,
                   <<"<span class=\"callout-icon\">", info.emoji, "</span>">>) # -1
        /\ callout.body # <<>> =>
             IndexOf(calloutHtml, <<"color: ", info.bodyColor>>) # -1

\* The text the body group of the pattern captured for a callout, untrimmed
CapturedBody(c) == CalloutExec(c.fullMatch, 0).body

\* text holds a character that is not white space
NonBlank(text) == \E k \in 1..Len(text) : ~IsWhiteSpace(text[k])

\* The opening of the body element
BodyElement == <<"<div", " class=\"callout-body\" style=\"">>

\* C7: a rendered callout holds a callout-body element if and only if its
\* body is not empty after trimming; with an absent or all white space body
\* the fragment is the container and the title element only.
C7_BodyElementIffBody ==
  Rendered =>
    /\ IndexOf(calloutHtml, BodyElement) # -1 <=> NonBlank(CapturedBody(callout))
    /\ ~NonBlank(CapturedBody(callout)) =>
         /\ Count(calloutHtml, "<div") = 2 + Count(callout.title, "<div")
         /\ calloutHtml[Len(calloutHtml) - 1] = "</div>"
         /\ calloutHtml[Len(calloutHtml)] = "</div>"

\* A callout whose body is white space only has been rendered
C7_Witness ==
  /\ Rendered
  /\ CapturedBody(callout) # <<>>
  /\ ~NonBlank(CapturedBody(callout))
  /\ IndexOf(calloutHtml, BodyElement) = -1

\* C8: the captured title of every match has no leading white space (the
\* white space after the type token is consumed whole), so the rendered
\* title element is the icon, one space, then the title.
C8_NoLeadingSpaceInTitle ==
  /\ \A k \in 1..Len(callouts) :
       callouts[k].title # <<>> => ~IsWhiteSpace(callouts[k].title[1])
  /\ Rendered =>
       /\ callout.title # <<>> => ~IsWhiteSpace(callout.title[1])
       /\ IndexOf(calloutHtml,
                  <<"</span>", " ">> \o callout.title \o <<"</div>">>) # -1

\* A rendered callout with two spaces between its type token and its title
C8_Witness ==
  /\ Rendered
  /\ callout.title # <<>>
  /\ StartsWithAt(callout.fullMatch, 3 + Len(callout.type), <<" ", " ">>)

\* C9 as claimed: in every rendered fragment, whatever the title, the
\* opening <div tags are as many as the closing </div> tags.
C9_DivsBalanced ==
  Rendered => Count(calloutHtml, "<div") = Count(calloutHtml, "</div>")

\* The title and the rendered body as they are put into the fragment
EmbeddedText(c) ==
  c.title \o (IF c.body = <<>> THEN <<>> ELSE MarkedParse(c.body))

\* C9 (amended): the tags renderCallout itself emits balance: beyond the
\* tags the title text and the rendered body bring with them, the fragment
\* holds two opening and two closing tags without a body and three of each
\* with one.
C9_OwnDivsBalanced ==
  Rendered =>
    LET own == IF callout.body = <<>> THEN 2 ELSE 3
    IN  /\ Count(calloutHtml, "<div")
             = own + Count(EmbeddedText(callout), "<div")
        /\ Count(calloutHtml, "</div>")
             = own + Count(EmbeddedText(callout), "</div>")

\* A rendered callout whose title holds an opening <div tag
C9_Witness ==
  /\ Rendered
  /\ Count(callout.title, "<div") > 0

\* C10: when the Markdown engine throws, for the document or for a callout
\* body, the caller of render_content gets an error that carries the code
\* MARKDOWN_PARSE_FAILED.
C10_MarkdownParseFailedCode ==
  (pc = "responded" /\ error.kind # "none") =>
    /\ response.isError
    /\ StartsWithAt(response.text, 0, <<"Error [", "MARKDOWN_PARSE_FAILED", "]: ">>)

\* ------------------------------------------------------------------------
\* slugify
\* ------------------------------------------------------------------------

MaxHeadingLen == 4

\* Upper case letters and what toLowerCase makes of them.  U+0130 (capital
\* I with dot above) becomes two characters: i and the combining dot U+0307
LowerCaseOf ==
  ("A" :> <<"a">>) @@ ("B" :> <<"b">>) @@ ("U+0130" :> <<"i", "U+0307">>)

RECURSIVE ToLowerCase(_)
\* text.toLowerCase()
ToLowerCase(text) ==
  IF text = <<>> THEN <<>>
  ELSE (IF Head(text) \in DOMAIN LowerCaseOf THEN LowerCaseOf[Head(text)]
        ELSE <<Head(text)>>) \o ToLowerCase(Tail(text))

\* The flag g dropped: the first character of the class only is removed
RemoveOthersFirst(text) ==
  LET others == {k \in 1..Len(text) :
                   ~(IsWordChar(text[k]) \/ IsWhiteSpace(text[k]) \/ text[k] = "-")}
  IN  IF others = {} THEN text
      ELSE SubSeq(text, 1, Min(others) - 1)
             \o SubSeq(text, Min(others) + 1, Len(text))

\* .replace(/[^\w\s-]/g, '')
RemoveOthers(text) ==
  SelectSeq(text, LAMBDA c : IsWordChar(c) \/ IsWhiteSpace(c) \/ c = "-")

RECURSIVE WhiteSpaceRuns(_)
\* .replace(/\s+/g, '-')
WhiteSpaceRuns(text) ==
  IF text = <<>> THEN <<>>
  ELSE IF IsWhiteSpace(Head(text))
       THEN <<"-">> \o WhiteSpaceRuns(
              SubSeq(text, WhiteSpaceRunLength(text, 0) + 1, Len(text)))
       ELSE <<Head(text)>> \o WhiteSpaceRuns(Tail(text))

\* The hyphens are left as they are
HyphenRunsKept(text) == text

RECURSIVE HyphenRuns(_)
\* .replace(/-+/g, '-')
HyphenRuns(text) ==
  IF text = <<>> THEN <<>>
  ELSE IF Head(text) = "-"
       THEN LET n == Max({m \in 1..Len(text) : \A j \in 1..m : text[j] = "-"})
            IN  <<"-">> \o HyphenRuns(SubSeq(text, n + 1, Len(text)))
       ELSE <<Head(text)>> \o HyphenRuns(Tail(text))

\* .replace(/^-|-$/g, ''): a hyphen at offset 0 and a hyphen at the last
\* offset are removed, each once
StripEnds(text) ==
  LET keep == {k \in 1..Len(text) :
                 ~(text[k] = "-" /\ (k = 1 \/ k = Len(text)))}
      F[k \in 0..Len(text)] ==
        IF k = 0 THEN <<>>
        ELSE IF k \in keep THEN Append(F[k - 1], text[k]) ELSE F[k - 1]
  IN  F[Len(text)]

\* slugify(text)
Slugify(text) ==
  StripEnds(HyphenRuns(WhiteSpaceRuns(RemoveOthers(ToLowerCase(text)))))

\* Characters heading texts are made of
HeadingChars == {"A", "b", "1", "_", "-", " ", "\n", "!", "U+0130"}

HeadingTexts == SeqsUpTo(HeadingChars, MaxHeadingLen)

\* The heading hook of the Markdown engine is about to call slugify(text)
InitSlugify ==
  /\ entry = "slugify"
  /\ markdown = <<>>
  /\ diagrams = [present |-> FALSE, list |-> <<>>]
  /\ InitLocals
  /\ headingText \in HeadingTexts
  /\ slug = <<>>
  /\ suspended = NoInvocation
  /\ InitNoTools

\* heading({text, depth}): const slug = slugify(text)
SlugifyHeading ==
  /\ entry = "slugify"
  /\ pc = "codeBlocks"
  /\ slug' = Slugify(headingText)
  /\ pc' = "slugified"
  /\ UNCHANGED <<inputVars, calloutVars, contentVars, error, headingText,
                 suspended, toolVars>>

NextSlugify == SlugifyHeading

\* slugify called on a heading text
SpecSlugify == InitSlugify /\ [][NextSlugify]_vars

Slugified == pc = "slugified"

\* Lower case ASCII letters, digits, the underscore and the hyphen
SlugChars ==
  {"a", "b", "c", "d", "e", "f", "g", "h", "i", "j", "k", "l", "m", "n",
   "o", "p", "q", "r", "s", "t", "u", "v", "w", "x", "y", "z", "0", "1",
   "2", "3", "4", "5", "6", "7", "8", "9", "_", "-"}

\* C11: whatever the text, the slug holds only lower case ASCII letters,
\* digits, underscores and hyphens (so no white space), no two hyphens in a
\* row, and no hyphen at its start or its end: one strip at each end is
\* enough after the collapse steps.
C11_SlugShape ==
  Slugified =>
    /\ \A k \in 1..Len(slug) : slug[k] \in SlugChars
    /\ \A k \in 1..(Len(slug) - 1) : ~(slug[k] = "-" /\ slug[k + 1] = "-")
    /\ slug # <<>> => (slug[1] # "-" /\ slug[Len(slug)] # "-")

\* A text that begins with several hyphens and white space characters and
\* holds an upper case letter has been slugified to a slug that is not empty
C11_Witness ==
  /\ Slugified
  /\ Len(headingText) >= 3
  /\ headingText[1] = "-"
  /\ IsWhiteSpace(headingText[2])
  /\ \E k \in 1..Len(headingText) : headingText[k] \in DOMAIN LowerCaseOf
  /\ slug # <<>>

\* The names placeholders are written with
DiagramNames == {NameX, NameY}

\* The names of the supplied diagrams
SuppliedNames == {diagrams.list[k].name : k \in 1..Len(diagrams.list)}

\* The literal token {{diagram:<name>}}
Token(name) == <<"{{diagram:">> \o name \o <<"}}">>

MaxConcurrentLines == 3

\* The markdown of two calls in progress together: callouts with and
\* without a body
ConcurrentDocuments ==
  {Join(ls) : ls \in SeqsUpTo({LineOpenX, LineText, LineClose},
                              MaxConcurrentLines)}

\* The variables processCallouts, extractCallouts and renderCallout declare
Locals ==
  <<codeBlockRanges, codeBlockLastIndex, callouts, calloutLastIndex,
    calloutsToProcess, i, callout, calloutIndex, calloutHtml, result, error>>

\* The variables were the module's: the call that resumes finds what the
\* call that ran last left in them
LocalsShared(own, running) == running

\* The variables are declared inside the functions (const and let in the
\* bodies, the regular expressions and the Marked instance created per
\* call): the call that resumes finds its own values
LocalsOf(own, running) == own

\* Where a call stands when the event loop can run another: at the await
\* of marked.parse, at the await of renderCallout's promise, or settled
AwaitPoints == {"parseBody", "replace", "resolved", "rejected"}

\* Two calls, neither has run yet
InitConcurrent ==
  /\ entry = "processCallouts"
  /\ markdown \in ConcurrentDocuments
  /\ diagrams = [present |-> FALSE, list |-> <<>>]
  /\ InitLocals
  /\ headingText = <<>>
  /\ slug = <<>>
  /\ InitNoTools
  /\ \E other \in ConcurrentDocuments :
       suspended =
         [active |-> TRUE, markdown |-> other, pc |-> "codeBlocks",
          locals |-> <<<<>>, 0, <<>>, 0, <<>>, 0, NoCallout, -1, <<>>, <<>>,
                       NoError>>]

\* The call that is running waits or has settled; the event loop runs the
\* other call from where it stood
Switch ==
  /\ suspended.active
  /\ pc \in AwaitPoints
  /\ suspended.pc \notin {"resolved", "rejected"}
  /\ suspended' = [active |-> TRUE, markdown |-> markdown, pc |-> pc,
                   locals |-> Locals]
  /\ markdown' = suspended.markdown
  /\ pc' = suspended.pc
  /\ LET found == LocalsOf(suspended.locals, Locals)
     IN  /\ codeBlockRanges' = found[1]
         /\ codeBlockLastIndex' = found[2]
         /\ callouts' = found[3]
         /\ calloutLastIndex' = found[4]
         /\ calloutsToProcess' = found[5]
         /\ i' = found[6]
         /\ callout' = found[7]
         /\ calloutIndex' = found[8]
         /\ calloutHtml' = found[9]
         /\ result' = found[10]
         /\ error' = found[11]
  /\ UNCHANGED <<entry, diagrams, contentVars, slugVars, toolVars>>

NextConcurrent ==
  \/ NextCallouts
  \/ Switch

\* Two calls of processCallouts interleaved at their awaits
SpecConcurrent == InitConcurrent /\ [][NextConcurrent]_vars

RECURSIVE ReplaceFrom(_, _, _)
\* The replacement loop from index k down, the engine not throwing
ReplaceFrom(text, cs, k) ==
  IF k < 1 THEN text
  ELSE LET at == IndexOf(text, cs[k].fullMatch)
       IN  IF at = -1 THEN ReplaceFrom(text, cs, k - 1)
           ELSE ReplaceFrom(
                  Splice(text, at, Len(cs[k].fullMatch), Fragment(cs[k])),
                  cs, k - 1)

\* The callouts a call on its own retains
RetainedAlone(text) ==
  LET ms == MatchesFrom(text, 0)
  IN  SelectSeq([k \in 1..Len(ms) |-> CalloutMatchOf(ms[k])],
                LAMBDA c : IsRetained(text, CodeBlocksFrom(text, 0), c))

\* What processCallouts(text) returns when it is the only call
ProcessCalloutsAlone(text) ==
  LET cs == RetainedAlone(text) IN ReplaceFrom(text, cs, Len(cs))

\* A call on its own can be rejected: it hands a body to the engine
CanRejectAlone(text) ==
  LET cs == RetainedAlone(text)
      F[k \in 0..Len(cs)] ==
        IF k = 0 THEN text
        ELSE LET at == IndexOf(F[k - 1], cs[Len(cs) + 1 - k].fullMatch)
             IN  IF at = -1 THEN F[k - 1]
                 ELSE Splice(F[k - 1], at, Len(cs[Len(cs) + 1 - k].fullMatch),
                             Fragment(cs[Len(cs) + 1 - k]))
  IN  \E k \in 1..Len(cs) :
        /\ cs[Len(cs) + 1 - k].body # <<>>
        /\ IndexOf(F[k - 1], cs[Len(cs) + 1 - k].fullMatch) # -1

\* C13: the calls share no state that changes: however two calls are
\* interleaved at their awaits, each returns what it returns when it runs
\* alone on its markdown, and is rejected only where it can be alone.
C13_CallsIndependent ==
  /\ Resolved => result = ProcessCalloutsAlone(markdown)
  /\ pc = "rejected" => CanRejectAlone(markdown)
  /\ suspended.pc = "resolved" =>
       suspended.locals[10] = ProcessCalloutsAlone(suspended.markdown)
  /\ suspended.pc = "rejected" => CanRejectAlone(suspended.markdown)

\* A call has rendered a callout with a body and returned while the other
\* call waits for the engine in the middle of its own callout
C13_Witness ==
  /\ Resolved
  /\ suspended.pc = "parseBody"
  /\ callout.body # <<>>
  /\ result # markdown
  /\ suspended.markdown # markdown

\* ------------------------------------------------------------------------
\* The tool calls: errors, outcomes and the handlers' answers
\* ------------------------------------------------------------------------

\* new PdfReporterError(code, message)
PdfReporterError(code, message) ==
  [kind |-> "PdfReporterError", code |-> code, message |-> message]

\* An Error of the runtime or of a library (fs, puppeteer): it has a
\* message and no code
PlainError(message) == [kind |-> "Error", code |-> "", message |-> message]

NoToolError == [kind |-> "none", code |-> "", message |-> <<>>]

\* How an async function stands: pending, returned a value or threw
Pending == [kind |-> "pending", value |-> <<>>, error |-> NoToolError]

Returned(value) == [kind |-> "return", value |-> value, error |-> NoToolError]

Threw(err) == [kind |-> "throw", value |-> <<>>, error |-> err]

\* The calls the model follows together
Requests == {1, 2}

\* A slot with no call in it
NoRequest ==
  [tool |-> "none", name |-> <<>>, title |-> <<>>, content |-> <<>>,
   template |-> <<>>, pc |-> "none", tempDir |-> "", rmCalls |-> <<>>,
   rmFailed |-> FALSE, tried |-> Pending, launched |-> FALSE,
   closeCalls |-> 0, cause |-> NoToolError, fullHtml |-> <<>>,
   pdfBuffer |-> <<>>, outputPath |-> <<>>, pdfOutcome |-> Pending,
   inner |-> Pending, outcome |-> Pending, response |-> NoResponse]

\* The text of a successful answer of each tool
SuccessText(tool, value) ==
  IF tool = "render_diagram"
  THEN <<"{\"name\":\"">> \o value[1] \o <<"\",\"svg\":\"">> \o value[2]
         \o <<"\"}">>
  ELSE IF tool = "generate_pdf"
  THEN <<"PDF generated: ">> \o value[1] \o <<" (">> \o value[2] \o <<")">>
         \o (IF value[3] # 0 THEN <<", ", value[3], " pages">> ELSE <<>>)
  ELSE value

\* The try / catch of a tool handler around the operation's outcome. The
\* operations throw PdfReporterError or an Error of the runtime; zod only
\* declares the input schemas and no operation throws a ZodError
HandlerResponse(tool, outcome) ==
  IF outcome.kind = "return"
  THEN [isError |-> FALSE, text |-> SuccessText(tool, outcome.value)]
  ELSE BuildErrorResponse(outcome.error)

\* The operation of the call q settles with outcome: a tool handler answers
\* at once, a function called directly (generatePdfPipeline) just settles
Settle(q, outcome) ==
  IF q.tool = "generatePdfPipeline"
  THEN [q EXCEPT !.outcome = outcome, !.pc = "settled"]
  ELSE [q EXCEPT !.outcome = outcome, !.pc = "responded",
                 !.response = HandlerResponse(q.tool, outcome)]

\* What a tool call leaves alone: the variables of the calls followed
\* one at a time
flatVars ==
  <<inputVars, pc, calloutVars, contentVars, error, slugVars, suspended>>

\* ------------------------------------------------------------------------
\* render_diagram: renderDiagram
\* ------------------------------------------------------------------------

\* The directories mkdtemp can create
TempDirs == {"/tmp/pdf-reporter-a", "/tmp/pdf-reporter-b", "/tmp/pdf-reporter-c"}

\* The svg strings renderDiagrams can produce
RenderedSvgs == {<<"<svg>1</svg>">>, <<"<svg>2</svg>">>}

\* A failed removal rejects the promise of renderDiagram
AfterRmUncaught(tried, failed) ==
  IF failed THEN Threw(PlainError(<<"EBUSY">>)) ELSE tried

\* rm(...).catch(() => {}): a failed removal is dropped, the finally block
\* ends normally and the try block's outcome stands
AfterRm(tried, failed) == tried

\* mkdtemp resolves with a new directory
MakeTempDir(r) ==
  /\ req[r].pc = "mkdtemp"
  /\ \E dir \in TempDirs :
       req' = [req EXCEPT ![r].tempDir = dir, ![r].pc = "renderDiagrams"]
  /\ UNCHANGED <<flatVars, renderCache, compiled, files>>

\* mkdtemp rejects: nothing was created and the try block is not entered
MakeTempDirFails(r) ==
  /\ req[r].pc = "mkdtemp"
  /\ req' = [req EXCEPT ![r] = Settle(req[r], Threw(PlainError(<<"ENOSPC">>)))]
  /\ UNCHANGED <<flatVars, renderCache, compiled, files>>

\* renderDiagrams resolves with an entry for input.name
DiagramRendered(r) ==
  /\ req[r].pc = "renderDiagrams"
  /\ \E svg \in RenderedSvgs :
       req' = [req EXCEPT ![r].tried = Returned(<<req[r].name, svg>>),
                          ![r].pc = "finally"]
  /\ UNCHANGED <<flatVars, renderCache, compiled, files>>

\* renderDiagrams resolves without an entry for input.name
DiagramMissing(r) ==
  /\ req[r].pc = "renderDiagrams"
  /\ req' = [req EXCEPT
       ![r].tried =
         Threw(PdfReporterError("MERMAID_RENDER_FAILED",
                 <<"Diagram '">> \o req[r].name
                   \o <<"' render returned no result">>)),
       ![r].pc = "finally"]
  /\ UNCHANGED <<flatVars, renderCache, compiled, files>>

\* renderDiagrams rejects (renderSingleDiagram wraps every failure)
DiagramThrows(r) ==
  /\ req[r].pc = "renderDiagrams"
  /\ req' = [req EXCEPT
       ![r].tried =
         Threw(PdfReporterError("MERMAID_RENDER_FAILED",
                 <<"Failed to render diagram \"">> \o req[r].name
                   \o <<"\": ", "Command failed">>)),
       ![r].pc = "finally"]
  /\ UNCHANGED <<flatVars, renderCache, compiled, files>>

\* finally: rm(tempDir, ...) is called and succeeds or fails; then the call
\* settles and the handler answers
RemoveTempDir(r) ==
  /\ req[r].pc = "finally"
  /\ \E failed \in BOOLEAN :
       req' = [req EXCEPT ![r] =
         [Settle(req[r], AfterRm(req[r].tried, failed)) EXCEPT
            !.rmCalls = Append(req[r].rmCalls, req[r].tempDir),
            !.rmFailed = failed]]
  /\ UNCHANGED <<flatVars, renderCache, compiled, files>>

\* ------------------------------------------------------------------------
\* get_template_schema
\* ------------------------------------------------------------------------

Generic == <<"generic">>

\* JSON.stringify(result, null, 2) of the schema of the generic template
SchemaText ==
  <<"{\n  \"required\": [\n    \"title\",\n    \"content\"\n  ],\n  \"optional\": [\n    \"subtitle\",\n    \"logo\",\n    \"template\",\n    \"options\"\n  ]\n}">>

\* The whole handler: the schema for 'generic', TEMPLATE_NOT_FOUND otherwise
GetTemplateSchema(r) ==
  /\ req[r].pc = "schema"
  /\ req' = [req EXCEPT ![r] =
       Settle(req[r], IF req[r].template = Generic
                 THEN Returned(SchemaText)
                 ELSE Threw(PdfReporterError("TEMPLATE_NOT_FOUND",
                              <<"Template not found: ">> \o req[r].template)))]
  /\ UNCHANGED <<flatVars, renderCache, compiled, files>>

\* ------------------------------------------------------------------------
\* generate_pdf: generatePdfFromHtml, compileTemplate, generatePdf, and
\* generatePdfPipeline around them
\* ------------------------------------------------------------------------

LowerAlnum ==
  {"a", "b", "c", "d", "e", "f", "g", "h", "i", "j", "k", "l", "m", "n",
   "o", "p", "q", "r", "s", "t", "u", "v", "w", "x", "y", "z", "0", "1",
   "2", "3", "4", "5", "6", "7", "8", "9"}

RECURSIVE NonAlnumRuns(_)
\* .replace(/[^a-z0-9]+/g, '-')
NonAlnumRuns(text) ==
  IF text = <<>> THEN <<>>
  ELSE IF Head(text) \notin LowerAlnum
       THEN LET n == Max({m \in 1..Len(text) :
                            \A j \in 1..m : text[j] \notin LowerAlnum})
            IN  <<"-">> \o NonAlnumRuns(SubSeq(text, n + 1, Len(text)))
       ELSE <<Head(text)>> \o NonAlnumRuns(Tail(text))

\* .replace(/-+$/, '')
StripTrailingHyphens(text) ==
  LET n == Max({m \in 0..Len(text) :
                  \A j \in 1..m : text[Len(text) + 1 - j] = "-"})
  IN  SubSeq(text, 1, Len(text) - n)

\* filename = input.title.toLowerCase().replace(...).replace(...)
ToFilename(title) == StripTrailingHyphens(NonAlnumRuns(ToLowerCase(title)))

\* process.env['OUTPUT_DIR'] ?? join(process.cwd(), 'output')
OutputDir == <<"output">>

\* new Date().toISOString().slice(0, 10) of the day the calls are made
Today == <<"2026-01-01">>

\* join(options.outputDir, `${options.filename}-${date}.pdf`)
OutputPathOf(filename) ==
  OutputDir \o <<"/">> \o filename \o <<"-">> \o Today \o <<".pdf">>

\* The cached renderer applied to the context: the base template around
\* the report template's body
RenderTemplate(title, content) ==
  <<"<html>", "<h1>">> \o title \o <<"</h1>">> \o content \o <<"</html>">>

\* Buffer.from(await page.pdf(...)): the bytes the browser prints for html
PdfOf(html) == <<"%PDF-">> \o html \o <<"%%EOF">>

\* formatFileSize(bytes)
FormatFileSize(bytes) ==
  IF bytes < 1024 THEN <<bytes, " B">>
  ELSE IF bytes < 1024 * 1024
       THEN LET tenths == (bytes * 10 + 512) \div 1024
            IN  <<tenths \div 10, ".", tenths % 10, " KB">>
       ELSE LET tenths == (bytes * 10 + 524288) \div 1048576
            IN  <<tenths \div 10, ".", tenths % 10, " MB">>

\* pageMatches ? pageMatches.length : 1, for bytes that hold no page object
PageCount(buffer) == 1

\* catch (err) of generatePdf: what it throws
GeneratePdfCatch(err) ==
  PdfReporterError("PDF_GENERATION_FAILED",
                   <<"Failed to generate PDF: ">> \o err.message)

\* The catch block never finds a browser
BrowserNeverDefined(launched) == FALSE

\* if (browser) in the catch block: launch had resolved
BrowserDefined(launched) == launched

\* Every thrown value is wrapped
PipelineCatchWrapsAll(inner) ==
  IF inner.kind # "throw" THEN inner
  ELSE Threw(PdfReporterError("INTERNAL_ERROR",
               <<"Pipeline failed: ">> \o inner.error.message))

\* generatePdfPipeline: try { return await generatePdfFromHtml(input) }
\* catch (err): a PdfReporterError is rethrown, anything else is wrapped
PipelineCatch(inner) ==
  IF inner.kind # "throw" THEN inner
  ELSE IF inner.error.kind = "PdfReporterError" THEN inner
  ELSE Threw(PdfReporterError("INTERNAL_ERROR",
               <<"Pipeline failed: ">> \o inner.error.message))

\* generatePdfFromHtml of the call q settles with inner; its caller is the
\* generate_pdf handler or generatePdfPipeline
SettlePdf(q, inner) ==
  Settle([q EXCEPT !.inner = inner],
         IF q.tool = "generatePdfPipeline" THEN PipelineCatch(inner)
         ELSE inner)

\* generatePdf of the call q settles with pdfOutcome, and with it
\* generatePdfFromHtml: { path, size, pages } is handed on, a throw passes
SettleGeneratePdf(q, pdfOutcome) ==
  SettlePdf([q EXCEPT !.pdfOutcome = pdfOutcome], pdfOutcome)

\* How often the template name was loaded and compiled
CompiledCount(name) == IF name \in DOMAIN compiled THEN compiled[name] ELSE 0

\* generatePdfFromHtml up to its first await: compileTemplate looks the
\* template up in renderCache and either renders at once or starts loading
StartPdf(r) ==
  /\ req[r].pc = "start"
  /\ IF req[r].template \in renderCache
     THEN req' = [req EXCEPT
            ![r].fullHtml = RenderTemplate(req[r].title, req[r].content),
            ![r].pc = "mkdir"]
     ELSE req' = [req EXCEPT ![r].pc = "createHbs"]
  /\ UNCHANGED <<flatVars, renderCache, compiled, files>>

\* createHbsEnvironment resolves (a missing partials directory is ignored)
HbsCreated(r) ==
  /\ req[r].pc = "createHbs"
  /\ req' = [req EXCEPT ![r].pc = "readCss"]
  /\ UNCHANGED <<flatVars, renderCache, compiled, files>>

\* readFile of styles/report.css resolves
CssRead(r) ==
  /\ req[r].pc = "readCss"
  /\ req' = [req EXCEPT ![r].pc = "readReport"]
  /\ UNCHANGED <<flatVars, renderCache, compiled, files>>

\* readFile of report.css or of base.hbs rejects: nothing catches it below
\* generatePdfFromHtml's caller
ReadFails(r) ==
  /\ req[r].pc \in {"readCss", "readBase"}
  /\ req' = [req EXCEPT ![r] =
       SettlePdf(req[r], Threw(PlainError(<<"ENOENT">>)))]
  /\ UNCHANGED <<flatVars, renderCache, compiled, files>>

\* readFile of templates/reports/<name>.hbs resolves
ReportRead(r) ==
  /\ req[r].pc = "readReport"
  /\ req[r].template = Generic
  /\ req' = [req EXCEPT ![r].pc = "readBase"]
  /\ UNCHANGED <<flatVars, renderCache, compiled, files>>

\* The failure is stored in renderCache under the template name
ReportMissingCached(r) ==
  /\ req[r].pc = "readReport"
  /\ req[r].template # Generic
  /\ req' = [req EXCEPT ![r] =
       SettlePdf(req[r],
         Threw(PdfReporterError("TEMPLATE_NOT_FOUND",
                 <<"Report template not found: templates/reports/">>
                   \o req[r].template \o <<".hbs">>)))]
  /\ renderCache' = renderCache \cup {req[r].template}
  /\ UNCHANGED <<flatVars, compiled, files>>

\* readFile of templates/reports/<name>.hbs rejects: TEMPLATE_NOT_FOUND
ReportMissing(r) ==
  /\ req[r].pc = "readReport"
  /\ req[r].template # Generic
  /\ req' = [req EXCEPT ![r] =
       SettlePdf(req[r],
         Threw(PdfReporterError("TEMPLATE_NOT_FOUND",
                 <<"Report template not found: templates/reports/">>
                   \o req[r].template \o <<".hbs">>)))]
  /\ UNCHANGED <<flatVars, renderCache, compiled, files>>

\* readFile of base.hbs resolves: both templates are compiled, the renderer
\* is put into renderCache and applied
BaseRead(r) ==
  /\ req[r].pc = "readBase"
  /\ compiled' =
       (req[r].template :> (CompiledCount(req[r].template) + 1)) @@ compiled
  /\ renderCache' = renderCache \cup {req[r].template}
  /\ req' = [req EXCEPT
       ![r].fullHtml = RenderTemplate(req[r].title, req[r].content),
       ![r].pc = "mkdir"]
  /\ UNCHANGED <<flatVars, files>>

\* generatePdf: mkdir(outputDir) resolves
MkdirDone(r) ==
  /\ req[r].pc = "mkdir"
  /\ req' = [req EXCEPT ![r].pc = "launch"]
  /\ UNCHANGED <<flatVars, renderCache, compiled, files>>

\* generatePdf: mkdir(outputDir) rejects, before the try block
MkdirFails(r) ==
  /\ req[r].pc = "mkdir"
  /\ req' = [req EXCEPT ![r] =
       SettleGeneratePdf(req[r], Threw(PlainError(<<"EACCES">>)))]
  /\ UNCHANGED <<flatVars, renderCache, compiled, files>>

\* puppeteer.launch resolves with a browser
Launched(r) ==
  /\ req[r].pc = "launch"
  /\ req' = [req EXCEPT ![r].launched = TRUE, ![r].pc = "print"]
  /\ UNCHANGED <<flatVars, renderCache, compiled, files>>

\* puppeteer.launch rejects: the catch block has no browser to close
LaunchFails(r) ==
  /\ req[r].pc = "launch"
  /\ LET err == PlainError(<<"Failed to launch the browser process">>)
     IN  req' = [req EXCEPT ![r] =
           SettleGeneratePdf(
             [req[r] EXCEPT
                !.cause = err,
                !.closeCalls = IF BrowserDefined(req[r].launched)
                               THEN req[r].closeCalls + 1
                               ELSE req[r].closeCalls],
             Threw(GeneratePdfCatch(err)))]
  /\ UNCHANGED <<flatVars, renderCache, compiled, files>>

\* browser.newPage, page.setContent and page.pdf resolve
Printed(r) ==
  /\ req[r].pc = "print"
  /\ req' = [req EXCEPT
       ![r].outputPath = OutputPathOf(ToFilename(req[r].title)),
       ![r].pdfBuffer = PdfOf(req[r].fullHtml),
       ![r].pc = "write"]
  /\ UNCHANGED <<flatVars, renderCache, compiled, files>>

\* browser.newPage, page.setContent or page.pdf rejects
PrintFails(r) ==
  /\ req[r].pc = "print"
  /\ req' = [req EXCEPT ![r].cause = PlainError(<<"Navigation timeout">>),
                        ![r].pc = "catch"]
  /\ UNCHANGED <<flatVars, renderCache, compiled, files>>

\* writeFile(outputPath, buffer) resolves
Written(r) ==
  /\ req[r].pc = "write"
  /\ files' = (req[r].outputPath :> req[r].pdfBuffer) @@ files
  /\ req' = [req EXCEPT ![r].pc = "close"]
  /\ UNCHANGED <<flatVars, renderCache, compiled>>

\* writeFile(outputPath, buffer) rejects
WriteFails(r) ==
  /\ req[r].pc = "write"
  /\ req' = [req EXCEPT ![r].cause = PlainError(<<"ENOSPC">>),
                        ![r].pc = "catch"]
  /\ UNCHANGED <<flatVars, renderCache, compiled, files>>

\* browser.close() resolves: generatePdf returns { path, size, pages }
Closed(r) ==
  /\ req[r].pc = "close"
  /\ req' = [req EXCEPT ![r] =
       SettleGeneratePdf(
         [req[r] EXCEPT !.closeCalls = req[r].closeCalls + 1],
         Returned(<<req[r].outputPath,
                    FormatFileSize(Len(req[r].pdfBuffer)),
                    PageCount(req[r].pdfBuffer)>>))]
  /\ UNCHANGED <<flatVars, renderCache, compiled, files>>

\* browser.close() rejects on the success path
CloseFails(r) ==
  /\ req[r].pc = "close"
  /\ req' = [req EXCEPT ![r].closeCalls = req[r].closeCalls + 1,
                        ![r].cause = PlainError(<<"Protocol error">>),
                        ![r].pc = "catch"]
  /\ UNCHANGED <<flatVars, renderCache, compiled, files>>

\* The catch block after the launch: browser.close().catch(() => {}) is
\* awaited, whatever comes of it, then PDF_GENERATION_FAILED is thrown
CatchClosed(r) ==
  /\ req[r].pc = "catch"
  /\ req' = [req EXCEPT ![r] =
       SettleGeneratePdf(
         [req[r] EXCEPT
            !.closeCalls = IF BrowserDefined(req[r].launched)
                           THEN req[r].closeCalls + 1
                           ELSE req[r].closeCalls],
         Threw(GeneratePdfCatch(req[r].cause)))]
  /\ UNCHANGED <<flatVars, renderCache, compiled, files>>

\* ------------------------------------------------------------------------
\* The tool calls of one server process
\* ------------------------------------------------------------------------

\* input.title of generate_pdf: two titles of one file name, and another
Titles == {<<"A">>, <<"a", "!">>, <<"b">>}

\* input.content of generate_pdf
Contents == {<<"c">>, <<"c", "c">>}

\* input.template: the template that exists and one that does not
TemplateNames == {Generic, <<"other">>}

\* A call of render_diagram
DiagramRequests ==
  {[NoRequest EXCEPT !.tool = "render_diagram", !.name = n, !.pc = "mkdtemp"] :
     n \in {NameX, NameY}}

\* A call of get_template_schema
SchemaRequests ==
  {[NoRequest EXCEPT !.tool = "get_template_schema", !.template = t,
                     !.pc = "schema"] : t \in TemplateNames}

\* A call of generate_pdf, or of generatePdfPipeline by a caller in process
PdfRequests ==
  {[NoRequest EXCEPT !.tool = tool, !.title = title, !.content = content,
                     !.template = t, !.pc = "start"] :
     tool \in {"generate_pdf", "generatePdfPipeline"}, title \in Titles,
     content \in Contents, t \in TemplateNames}

\* The flat variables when no call is followed through them
IdleLocals ==
  /\ entry = "tools"
  /\ markdown = <<>>
  /\ diagrams = [present |-> FALSE, list |-> <<>>]
  /\ pc = "idle"
  /\ codeBlockRanges = <<>>
  /\ codeBlockLastIndex = 0
  /\ callouts = <<>>
  /\ calloutLastIndex = 0
  /\ calloutsToProcess = <<>>
  /\ i = 0
  /\ callout = NoCallout
  /\ calloutIndex = -1
  /\ calloutHtml = <<>>
  /\ result = <<>>
  /\ contentHtml = <<>>
  /\ contentOrigin = <<>>
  /\ d = 0
  /\ error = NoError
  /\ response = NoResponse
  /\ headingText = <<>>
  /\ slug = <<>>
  /\ suspended = NoInvocation

\* The server has just started: a call of render_content, or one call of
\* another tool, or two calls of generate_pdf together
InitTools ==
  \/ InitContent
  \/ /\ IdleLocals
     /\ renderCache = {}
     /\ compiled = <<>>
     /\ files = <<>>
     /\ \/ \E q \in DiagramRequests \cup SchemaRequests \cup PdfRequests :
             req = [r \in Requests |-> IF r = 1 THEN q ELSE NoRequest]
        \/ req \in [Requests -> PdfRequests]

NextTools ==
  \/ NextContent
  \/ \E r \in DOMAIN req : MakeTempDir(r)
  \/ \E r \in DOMAIN req : MakeTempDirFails(r)
  \/ \E r \in DOMAIN req : DiagramRendered(r)
  \/ \E r \in DOMAIN req : DiagramMissing(r)
  \/ \E r \in DOMAIN req : DiagramThrows(r)
  \/ \E r \in DOMAIN req : RemoveTempDir(r)
  \/ \E r \in DOMAIN req : GetTemplateSchema(r)
  \/ \E r \in DOMAIN req : StartPdf(r)
  \/ \E r \in DOMAIN req : HbsCreated(r)
  \/ \E r \in DOMAIN req : CssRead(r)
  \/ \E r \in DOMAIN req : ReadFails(r)
  \/ \E r \in DOMAIN req : ReportRead(r)
  \/ \E r \in DOMAIN req : ReportMissing(r)
  \/ \E r \in DOMAIN req : BaseRead(r)
  \/ \E r \in DOMAIN req : MkdirDone(r)
  \/ \E r \in DOMAIN req : MkdirFails(r)
  \/ \E r \in DOMAIN req : Launched(r)
  \/ \E r \in DOMAIN req : LaunchFails(r)
  \/ \E r \in DOMAIN req : Printed(r)
  \/ \E r \in DOMAIN req : PrintFails(r)
  \/ \E r \in DOMAIN req : Written(r)
  \/ \E r \in DOMAIN req : WriteFails(r)
  \/ \E r \in DOMAIN req : Closed(r)
  \/ \E r \in DOMAIN req : CloseFails(r)
  \/ \E r \in DOMAIN req : CatchClosed(r)

\* The tools of the server
SpecTools == InitTools /\ [][NextTools]_vars

\* ------------------------------------------------------------------------
\* Properties of the tool calls
\* ------------------------------------------------------------------------

\* The calls of renderDiagram
DiagramCalls == {r \in DOMAIN req : req[r].tool = "render_diagram"}

\* The calls that run generatePdfFromHtml
PdfCalls ==
  {r \in DOMAIN req : req[r].tool \in {"generate_pdf", "generatePdfPipeline"}}

\* C14: a renderDiagram call whose temporary directory was created has the
\* removal of exactly that directory attempted once before it settles, after
\* a rendered diagram, a missing entry and a throw alike, and never before
\* the rendering is over; the call settles with the outcome of the try block
\* whether the removal failed or not
C14_TempDirRemovedOnce ==
  \A r \in DiagramCalls :
    /\ (req[r].outcome.kind # "pending" /\ req[r].tempDir # "") =>
         /\ req[r].rmCalls = <<req[r].tempDir>>
         /\ req[r].tried.kind # "pending"
         /\ req[r].outcome = req[r].tried
    /\ (req[r].outcome.kind = "pending" \/ req[r].tempDir = "") =>
         req[r].rmCalls = <<>>

\* A call whose rendering threw and whose removal failed has settled, with
\* the removal of its own directory attempted
C14_Witness ==
  \E r \in DiagramCalls :
    /\ req[r].pc = "responded"
    /\ req[r].rmFailed
    /\ req[r].tried.kind = "throw"
    /\ req[r].rmCalls = <<req[r].tempDir>>
    /\ req[r].response.isError

\* C15: when generatePdf has resolved or rejected after launching a
\* browser, close() was invoked on that browser
C15_BrowserClosed ==
  \A r \in PdfCalls :
    (req[r].pdfOutcome.kind # "pending" /\ req[r].launched) =>
      req[r].closeCalls >= 1

\* generatePdf has rejected after a failure that followed the launch
C15_Witness ==
  \E r \in PdfCalls :
    /\ req[r].pdfOutcome.kind = "throw"
    /\ req[r].launched
    /\ req[r].cause.kind = "Error"
    /\ req[r].closeCalls = 1

\* C16: whenever generatePdf rejects, it rejects with a PdfReporterError of
\* code PDF_GENERATION_FAILED whose message starts with
\* 'Failed to generate PDF'
C16_OnlyPdfGenerationFailed ==
  \A r \in PdfCalls :
    req[r].pdfOutcome.kind = "throw" =>
      /\ req[r].pdfOutcome.error.kind = "PdfReporterError"
      /\ req[r].pdfOutcome.error.code = "PDF_GENERATION_FAILED"
      /\ req[r].pdfOutcome.error.message # <<>>
      /\ req[r].pdfOutcome.error.message[1] = "Failed to generate PDF: "

\* The calls of generatePdfPipeline
PipelineCalls == {r \in DOMAIN req : req[r].tool = "generatePdfPipeline"}

\* C17: generatePdfPipeline rejects only with a PdfReporterError, and
\* exactly when a stage threw: a PdfReporterError of a stage is rethrown as
\* it is, any other thrown value is wrapped in a PdfReporterError of code
\* INTERNAL_ERROR whose message is 'Pipeline failed: ' and the value's message
C17_PipelineRejectsTyped ==
  \A r \in PipelineCalls :
    /\ req[r].pc = "settled" =>
         (req[r].outcome.kind = "throw" <=> req[r].inner.kind = "throw")
    /\ req[r].outcome.kind = "throw" =>
         /\ req[r].outcome.error.kind = "PdfReporterError"
         /\ req[r].inner.error.kind = "PdfReporterError" =>
              req[r].outcome.error = req[r].inner.error
         /\ req[r].inner.error.kind # "PdfReporterError" =>
              /\ req[r].outcome.error.code = "INTERNAL_ERROR"
              /\ req[r].outcome.error.message =
                   <<"Pipeline failed: ">> \o req[r].inner.error.message

\* generatePdfPipeline has rethrown the PdfReporterError of a stage
C17_Witness ==
  \E r \in PipelineCalls :
    /\ req[r].pc = "settled"
    /\ req[r].inner.kind = "throw"
    /\ req[r].inner.error.kind = "PdfReporterError"
    /\ req[r].outcome = req[r].inner

\* The calls of a tool handler through req
HandlerCalls ==
  {r \in DOMAIN req :
     req[r].tool \in {"render_diagram", "generate_pdf", "get_template_schema"}}

\* C18: a tool handler never rejects, it answers as soon as its operation
\* settles: a thrown PdfReporterError gives isError and the text
\* 'Error [<code>]: <message>', any other thrown value gives isError and
\* 'Internal error: <message>', and a success gives an answer without isError
C18_HandlersAlwaysAnswer ==
  /\ entry = "render_content" => pc # "rejected"
  /\ (entry = "render_content" /\ pc = "responded") =>
       IF error.kind = "none" THEN ~response.isError
       ELSE /\ response.isError
            /\ response.text = <<"Internal error: ">> \o error.message
  /\ \A r \in HandlerCalls :
       /\ req[r].outcome.kind # "pending" <=> req[r].pc = "responded"
       /\ req[r].pc = "responded" =>
            IF req[r].outcome.kind = "return"
            THEN ~req[r].response.isError
            ELSE IF req[r].outcome.error.kind = "PdfReporterError"
            THEN /\ req[r].response.isError
                 /\ req[r].response.text =
                      <<"Error [", req[r].outcome.error.code, "]: ">>
                        \o req[r].outcome.error.message
            ELSE /\ req[r].response.isError
                 /\ req[r].response.text =
                      <<"Internal error: ">> \o req[r].outcome.error.message

\* A handler has answered a thrown PdfReporterError
C18_Witness ==
  \E r \in HandlerCalls :
    /\ req[r].pc = "responded"
    /\ req[r].outcome.kind = "throw"
    /\ req[r].outcome.error.kind = "PdfReporterError"
    /\ req[r].response.isError
    /\ req[r].response.text[1] = "Error ["

\* C19: the files of a template name are loaded and compiled at most once,
\* however the calls of compileTemplate interleave
C19_CompiledAtMostOnce ==
  \A name \in DOMAIN compiled : compiled[name] <= 1

\* C20: whenever a call of generatePdfFromHtml has returned, the file at the
\* path returned to it holds the bytes printed for that call and the size
\* reported to it is the size of that file
C20_OutputsIndependent ==
  \A r \in PdfCalls :
    req[r].inner.kind = "return" =>
      /\ req[r].inner.value[1] \in DOMAIN files
      /\ files[req[r].inner.value[1]] = req[r].pdfBuffer
      /\ req[r].inner.value[2] =
           FormatFileSize(Len(files[req[r].inner.value[1]]))

\* ------------------------------------------------------------------------
\* Properties of the rendered callout and of the two scanners
\* ------------------------------------------------------------------------

\* The lexeme occurs in the text
Holds(text, lexeme) == \E k \in 1..Len(text) : text[k] = lexeme

\* C21: the title element of every rendered callout has an inline style
\* with display: flex, align-items: center and gap: 8px next to
\* 'font-weight: 700; font-size: 15px', and the body element's inline style
\* holds 'font-size: 14px; line-height: 1.7'
C21_TitleFlexBodyLineHeight ==
  Rendered =>
    /\ IndexOf(calloutHtml, <<"font-weight: 700", "; ", "font-size: 15px">>) # -1
    /\ Holds(calloutHtml, "display: flex")
    /\ Holds(calloutHtml, "align-items: center")
    /\ Holds(calloutHtml, "gap: 8px")
    /\ callout.body # <<>> =>
         IndexOf(calloutHtml,
                 <<"font-size: 14px", "; ", "line-height: 1.7">>) # -1

\* A line starts at offset o: the text starts there or a line feed precedes
LineStartsAt(text, o) == o = 0 \/ text[o] = "\n"

\* A line ends at offset o: the text ends there or a line feed follows
LineEndsAt(text, o) == o = Len(text) \/ text[o + 1] = "\n"

\* The end of the line that holds offset o
LineEndFrom(text, o) == Min({q \in o..Len(text) : LineEndsAt(text, q)})

\* The line that starts at offset p is exactly lit
BareLineAt(text, p, lit) ==
  LineStartsAt(text, p) /\ StartsWithAt(text, p, lit) /\ LineEndsAt(text, p + Len(lit))

\* Where the title stands on the opening line at offset s: after the
\* colons, the type token and the white space that follows it on that line
TitleStart(text, s) ==
  LET t  == s + 3 + WordRunLength(text, s + 3)
      le == LineEndFrom(text, s)
  IN  Max({q \in t..le : \A j \in (t + 1)..q : IsWhiteSpace(text[j])})

\* The matches of extractCallouts are all found
Extracted == entry = "processCallouts" /\ pc = "filter"

\* C22: the title of every match of extractCallouts is the text of the
\* opening line after the type token and the white space behind it, never
\* text of a later line, and every line between the opening line and the
\* closing line belongs to the body
C22_TitleFromOpeningLine ==
  Extracted =>
    LET ms == MatchesFrom(markdown, 0)
    IN  /\ Len(callouts) = Len(ms)
        /\ \A j \in 1..Len(ms) :
             LET le == LineEndFrom(markdown, ms[j].index)
             IN  /\ callouts[j].title =
                      Substring(markdown, TitleStart(markdown, ms[j].index), le)
                 /\ callouts[j].body =
                      Trim(Substring(markdown, le + 1, ms[j].end - 3))

\* C23: the text of every match of extractCallouts ends at the first line
\* after the opening line that is exactly three colons, so neither the title
\* nor the body is or holds such a line
C23_EndsAtFirstClosingLine ==
  Extracted =>
    LET ms == MatchesFrom(markdown, 0)
    IN  /\ Len(callouts) = Len(ms)
        /\ \A j \in 1..Len(ms) :
             LET le == LineEndFrom(markdown, ms[j].index)
                 closes == {p \in (le + 1)..Len(markdown) :
                              BareLineAt(markdown, p, Colons)}
             IN  /\ closes # {}
                 /\ ms[j].end = Min(closes) + 3
                 /\ callouts[j].title # Colons
                 /\ \A p \in 0..Len(ms[j].body) :
                      ~BareLineAt(ms[j].body, p, Colons)

\* C24: every match of extractCallouts starts where a line starts and ends
\* with a line that is exactly three colons; the matches come in strictly
\* increasing start offset and do not overlap.  So three colons behind other
\* text on their line open nothing, and three colons with other text
\* behind them close nothing
C24_MatchesLineAnchored ==
  Extracted =>
    LET ms == MatchesFrom(markdown, 0)
    IN  /\ Len(callouts) = Len(ms)
        /\ \A j \in 1..Len(ms) :
             /\ callouts[j].fullMatch =
                  Substring(markdown, ms[j].index, ms[j].end)
             /\ LineStartsAt(markdown, ms[j].index)
             /\ StartsWithAt(markdown, ms[j].index, Colons)
             /\ ms[j].index < ms[j].end - 3
             /\ BareLineAt(markdown, ms[j].end - 3, Colons)
        /\ \A j \in 1..(Len(ms) - 1) :
             /\ ms[j].index < ms[j + 1].index
             /\ ms[j].end <= ms[j + 1].index

\* Two matches were found, the first with a line in it that starts with
\* three colons and goes on, which did not close it
C24_Witness ==
  /\ Extracted
  /\ Len(callouts) = 2
  /\ StartsWithAt(callouts[1].body, 0, Colons)
  /\ callouts[1].body # Colons

\* The code fence ranges are all found
Scanned == entry = "processCallouts" /\ pc = "extract"

\* C25: every code fence range begins at three backticks at the start of a
\* line and ends at the end of the first later line that is exactly three
\* backticks; start < end; the ranges are in increasing order and do not
\* overlap, and the closing line of a range does not open the next one
C25_FenceRanges ==
  entry = "processCallouts" =>
    /\ \A k \in 1..Len(codeBlockRanges) :
         LET r == codeBlockRanges[k]
         IN  /\ LineStartsAt(markdown, r.start)
             /\ StartsWithAt(markdown, r.start, Fence)
             /\ r.start < r.end
             /\ r.start < r.end - 3
             /\ BareLineAt(markdown, r.end - 3, Fence)
             /\ \A p \in (r.start + 1)..(r.end - 4) :
                  ~BareLineAt(markdown, p, Fence)
    /\ \A k \in 1..(Len(codeBlockRanges) - 1) :
         /\ codeBlockRanges[k].start < codeBlockRanges[k + 1].start
         /\ codeBlockRanges[k].end <= codeBlockRanges[k + 1].start

\* Two ranges were found, with a line between the opening and the closing
\* line of the first
C25_Witness ==
  /\ Scanned
  /\ Len(codeBlockRanges) = 2
  /\ codeBlockRanges[1].end - codeBlockRanges[1].start > 7

\* The offsets of the lines that start with three backticks and have no
\* later line that is exactly three backticks
UnterminatedFences(text) ==
  {o \in 0..Len(text) :
     /\ LineStartsAt(text, o)
     /\ StartsWithAt(text, o, Fence)
     /\ \A p \in (o + 1)..Len(text) : ~BareLineAt(text, p, Fence)}

\* The line at offset o lies in no code fence range: it closes no fence
OutsideRanges(ranges, o) ==
  \A k \in 1..Len(ranges) : ~(ranges[k].start <= o /\ o < ranges[k].end)

\* C26: an opening line of three backticks with no later line that is
\* exactly three backticks gives no code fence range and protects nothing:
\* every callout matched after it is converted, its fragment is in the
\* output
C26_UnterminatedFenceProtectsNothing ==
  Resolved =>
    \A o \in UnterminatedFences(markdown) :
      /\ \A k \in 1..Len(codeBlockRanges) : codeBlockRanges[k].start # o
      /\ OutsideRanges(codeBlockRanges, o) =>
           LET ms == MatchesFrom(markdown, 0)
           IN  \A j \in 1..Len(ms) :
                 ms[j].index > o =>
                   IndexOf(result, Fragment(CalloutMatchOf(ms[j]))) # -1

\* C27: within one call of processCallouts the retained callouts are
\* rendered one at a time and in reverse order of their appearance: the
\* loop starts at the last retained callout, a rendering starts for the
\* callout at the loop index and leaves result alone, it is substituted
\* when it completes, and only then the index goes down by one
C27_OneAtATimeInReverse ==
  [][entry = "processCallouts" =>
       /\ (pc = "filter" /\ pc' = "replace") =>
            /\ i' = Len(calloutsToProcess') - 1
            /\ result' = markdown
       /\ pc \in {"replace", "parseBody"} =>
            calloutsToProcess' = calloutsToProcess
       /\ (pc = "replace" /\ pc' = "parseBody") =>
            /\ callout' = calloutsToProcess[i + 1]
            /\ i' = i
            /\ result' = result
       /\ (pc = "parseBody" /\ pc' = "replace") =>
            /\ callout' = callout
            /\ i' = i - 1
            /\ result' = Splice(result, calloutIndex, Len(callout.fullMatch),
                                calloutHtml')
       /\ (pc = "replace" /\ pc' = "replace") =>
            /\ i' = i - 1
            /\ result' # result =>
                 /\ callout' = calloutsToProcess[i + 1]
                 /\ result' = Splice(result, calloutIndex',
                                     Len(callout'.fullMatch), calloutHtml')
       /\ (pc = "replace" /\ pc' = "resolved") =>
            /\ i = -1
            /\ result' = result
    ]_vars

\* The body of the first of two retained callouts is being rendered, the
\* second callout is substituted already
C27_Witness ==
  /\ entry = "processCallouts"
  /\ pc = "parseBody"
  /\ Len(calloutsToProcess) = 2
  /\ i = 0
  /\ result # markdown
  /\ callout = calloutsToProcess[1]

\* ------------------------------------------------------------------------
\* Properties of the render cache
\* ------------------------------------------------------------------------

\* Where a call stands while compileTemplate loads the template files
LoadingStages == {"createHbs", "readCss", "readReport", "readBase"}

C29_SlugifyIdempotent ==
  Slugified => Slugify(slug) = slug

\* A heading was slugified whose text lost characters, hyphens among them,
\* and the slug is not empty
C29_Witness ==
  /\ Slugified
  /\ slug # <<>>
  /\ Len(slug) < Len(headingText)
  /\ \E k \in 1..Len(headingText) : headingText[k] = "!"
  /\ headingText[1] \in {"-", " "}
  /\ Slugify(slug) = slug

\* ------------------------------------------------------------------------
\* Termination of processCallouts
\* ------------------------------------------------------------------------

\* processCallouts with its steps taken: the two scans and the loops are
\* synchronous code that runs on, and every rendering of a callout body
\* completes, with a value or with a throw.  The fairness of the turn of
\* extractCallouts is weak fairness with its enabling condition written
\* out: a turn is possible exactly while pc = "extract", and either branch
\* of it changes a variable
SpecTerminating ==
  /\ Init
  /\ [][Next]_vars
  /\ WF_vars(ScanCodeBlock)
  /\ ([]<>(pc # "extract") \/ []<><<ExtractCallout>>_vars)
  /\ WF_vars(FilterCallouts)
  /\ WF_vars(ReplaceCallout)
  /\ WF_vars(BodyParsed \/ BodyParseThrows)
  /\ WF_vars(ProcessCalloutsReturns)

\* C30: the two scanning loops terminate on every input: every match found
\* is not empty and the next search starts at its end, so the scan position
\* grows with every turn and never passes the end of the input; and
\* processCallouts completes when every rendering of a body completes
C30_ScansTerminate ==
  /\ [][/\ Len(codeBlockRanges') > Len(codeBlockRanges) =>
            /\ codeBlockLastIndex < codeBlockLastIndex'
            /\ codeBlockLastIndex' <= Len(markdown)
            /\ codeBlockRanges'[Len(codeBlockRanges')].start >= codeBlockLastIndex
            /\ codeBlockRanges'[Len(codeBlockRanges')].end = codeBlockLastIndex'
       /\ Len(callouts') > Len(callouts) =>
            /\ calloutLastIndex < calloutLastIndex'
            /\ calloutLastIndex' <= Len(markdown)
            /\ callouts'[Len(callouts')].fullMatch # <<>>
       /\ Len(codeBlockRanges) <= Len(markdown)
       /\ Len(callouts) <= Len(markdown)
      ]_vars
  /\ <>(pc \in {"resolved", "rejected"})

\* A call has returned after both scans went round more than once and a
\* body was rendered
C30_Witness ==
  /\ Resolved
  /\ Len(codeBlockRanges) >= 1
  /\ Len(callouts) >= 2
  /\ Len(calloutsToProcess) >= 1
  /\ result # markdown

=============================================================================
